---------------------------- MODULE Spec2Model ----------------------------
(***************************************************************************)
(* A model of the LazorKit demo's transfer and balance logic:              *)
(*   - TransactionPanel.handleSendTransaction / sendInChunks /             *)
(*     sendTransaction          (src/src/components/TransactionPanel.tsx)  *)
(*   - TransactionsButton.handleActions          (src/unnamed/part_003)    *)
(*   - Home.fetchBalance and its callers         (src/src/app/page.tsx)    *)
(*                                                                         *)
(* Amounts are JavaScript numbers.  They are modelled as IEEE-754 doubles: *)
(* a number is a sign and a magnitude, the magnitude an exact multiple of  *)
(* 2^-ScaleBits kept as a little-endian sequence of 15-bit limbs, and      *)
(* every arithmetic operation rounds its exact result to 53 significant    *)
(* bits, to nearest, ties to even.                                         *)
(***************************************************************************)
EXTENDS Integers, Sequences, FiniteSets, TLC

(***************************************************************************)
(* Natural numbers of any size: little-endian limbs, no leading zero limb. *)
(***************************************************************************)
LimbBits == 5 * 3
Base == 2 ^ LimbBits

Max(a, b) == IF a >= b THEN a ELSE b

RECURSIVE BNorm(_)
BNorm(a) ==
  IF a = <<>> THEN a
  ELSE IF a[Len(a)] = 0 THEN BNorm(SubSeq(a, 1, Len(a) - 1)) ELSE a

RECURSIVE BFromInt(_)
BFromInt(n) == IF n = 0 THEN <<>> ELSE <<n % Base>> \o BFromInt(n \div Base)

RECURSIVE BToInt(_)
BToInt(a) == IF a = <<>> THEN 0 ELSE a[1] + Base * BToInt(Tail(a))

Limb(a, i) == IF i <= Len(a) THEN a[i] ELSE 0

RECURSIVE BCmpFrom(_, _, _)
BCmpFrom(a, b, i) ==
  IF i = 0 THEN 0
  ELSE IF Limb(a, i) > Limb(b, i) THEN 1
  ELSE IF Limb(a, i) < Limb(b, i) THEN -1
  ELSE BCmpFrom(a, b, i - 1)

BCmp(a, b) == BCmpFrom(a, b, Max(Len(a), Len(b)))

RECURSIVE BAddFrom(_, _, _, _)
BAddFrom(a, b, i, c) ==
  IF i > Len(a) /\ i > Len(b) THEN (IF c = 0 THEN <<>> ELSE <<c>>)
  ELSE LET s == Limb(a, i) + Limb(b, i) + c
       IN  <<s % Base>> \o BAddFrom(a, b, i + 1, s \div Base)

BAdd(a, b) == BAddFrom(a, b, 1, 0)

RECURSIVE BSubFrom(_, _, _, _)
BSubFrom(a, b, i, br) ==
  IF i > Len(a) THEN <<>>
  ELSE LET d == Limb(a, i) - Limb(b, i) - br
       IN  IF d < 0 THEN <<d + Base>> \o BSubFrom(a, b, i + 1, 1)
                    ELSE <<d>> \o BSubFrom(a, b, i + 1, 0)

\* a - b, for a >= b
BSub(a, b) == BNorm(BSubFrom(a, b, 1, 0))

RECURSIVE BMulSFrom(_, _, _, _)
BMulSFrom(a, k, i, c) ==
  IF i > Len(a) THEN BFromInt(c)
  ELSE LET p == a[i] * k + c
       IN  <<p % Base>> \o BMulSFrom(a, k, i + 1, p \div Base)

\* a * k, for 0 <= k <= Base
BMulS(a, k) == BNorm(BMulSFrom(a, k, 1, 0))

RECURSIVE BMul(_, _)
BMul(a, b) ==
  IF b = <<>> \/ a = <<>> THEN <<>>
  ELSE BAdd(BMulS(a, b[1]), BNorm(<<0>> \o BMul(a, Tail(b))))

RECURSIVE BDivSFrom(_, _, _, _)
BDivSFrom(a, k, i, r) ==
  IF i = 0 THEN <<>>
  ELSE LET t == r * Base + a[i]
       IN  BDivSFrom(a, k, i - 1, t % k) \o <<t \div k>>

\* floor(a / k), for 0 < k <= Base
BDivS(a, k) == BNorm(BDivSFrom(a, k, Len(a), 0))

\* a * 2^n and floor(a / 2^n)
BShl(a, n) ==
  IF a = <<>> THEN <<>>
  ELSE [i \in 1..(n \div LimbBits) |-> 0] \o BMulS(a, 2 ^ (n % LimbBits))

BShr(a, n) ==
  IF n \div LimbBits >= Len(a) THEN <<>>
  ELSE BDivS(SubSeq(a, (n \div LimbBits) + 1, Len(a)), 2 ^ (n % LimbBits))

RECURSIVE BitLen(_)
BitLen(n) == IF n = 0 THEN 0 ELSE 1 + BitLen(n \div 2)

BBits(a) == IF a = <<>> THEN 0 ELSE LimbBits * (Len(a) - 1) + BitLen(a[Len(a)])

RECURSIVE QDigit(_, _, _, _)
\* The largest g' >= g with g' - g < 2^(k+1) and b * g' <= t
QDigit(t, b, k, g) ==
  IF k < 0 THEN g
  ELSE IF BCmp(BMulS(b, g + 2 ^ k), t) <= 0
       THEN QDigit(t, b, k - 1, g + 2 ^ k)
       ELSE QDigit(t, b, k - 1, g)

RECURSIVE BDivModFrom(_, _, _)
\* <<floor(a' / b), a' mod b>> for a' = floor(a / Base^j): long division
BDivModFrom(a, b, j) ==
  IF j >= Len(a) THEN <<<<>>, <<>>>>
  ELSE LET prev == BDivModFrom(a, b, j + 1) IN
       IF prev[2] = <<>> /\ a[j + 1] = 0 THEN <<BNorm(<<0>> \o prev[1]), <<>>>>
       ELSE LET t == BNorm(<<a[j + 1]>> \o prev[2])
                g == QDigit(t, b, LimbBits - 1, 0)
            IN  <<BNorm(<<g>> \o prev[1]), BSub(t, BMulS(b, g))>>

\* <<floor(a / b), a mod b>>, for b > 0
BDivMod(a, b) == BDivModFrom(a, b, 0)

(***************************************************************************)
(* IEEE-754 binary64 numbers (the JavaScript number type).                 *)
(***************************************************************************)
MantissaBits == 53
ScaleBits == 6 * LimbBits

\* The exact integer a rounded to MantissaBits significant bits,
\* to nearest, ties to even.
RoundToDouble(a) ==
  LET n == BBits(a) IN
  IF n <= MantissaBits THEN a
  ELSE LET d    == n - MantissaBits
           q    == BShr(a, d)
           r    == BSub(a, BShl(q, d))
           c    == BCmp(r, BShl(<<1>>, d - 1))
           up   == c > 0 \/ (c = 0 /\ q[1] % 2 = 1)
       IN  BShl(IF up THEN BAdd(q, <<1>>) ELSE q, d)

\* A quotient with its remainder folded into the lowest bit (sticky bit).
Jam(qr) ==
  IF qr[2] = <<>> \/ qr[1] = <<>> THEN qr[1]
  ELSE IF qr[1][1] % 2 = 0 THEN BAdd(qr[1], <<1>>) ELSE qr[1]

Num(neg, mag) == [neg |-> neg /\ mag # <<>>, mag |-> mag]

Zero == Num(FALSE, <<>>)

\* The number an integer literal denotes.
NumFromInt(n) == Num(n < 0, BShl(BFromInt(IF n < 0 THEN -n ELSE n), ScaleBits))

\* parseFloat / a decimal literal: the double nearest to n / 10^d.
NumFromDecimal(n, d) ==
  Num(n < 0,
      RoundToDouble(Jam(BDivMod(BShl(BFromInt(IF n < 0 THEN -n ELSE n), ScaleBits),
                                BFromInt(10 ^ d)))))

NumLT(x, y) ==
  IF x.neg # y.neg THEN x.neg
  ELSE IF x.neg THEN BCmp(x.mag, y.mag) > 0 ELSE BCmp(x.mag, y.mag) < 0

NumLE(x, y) == x = y \/ NumLT(x, y)

NumGT(x, y) == NumLT(y, x)

\* Math.min
NumMin(x, y) == IF NumLT(y, x) THEN y ELSE x

NumNeg(x) == Num(~x.neg, x.mag)

NumAdd(x, y) ==
  IF x.neg = y.neg THEN Num(x.neg, RoundToDouble(BAdd(x.mag, y.mag)))
  ELSE IF BCmp(x.mag, y.mag) >= 0
       THEN Num(x.neg, RoundToDouble(BSub(x.mag, y.mag)))
       ELSE Num(y.neg, RoundToDouble(BSub(y.mag, x.mag)))

NumSub(x, y) == NumAdd(x, NumNeg(y))

\* x / y, for y # 0
NumDiv(x, y) ==
  Num(x.neg # y.neg, RoundToDouble(Jam(BDivMod(BShl(x.mag, ScaleBits), y.mag))))

NumMul(x, y) ==
  LET p == BMul(x.mag, y.mag)
      q == BShr(p, ScaleBits)
  IN  Num(x.neg # y.neg, RoundToDouble(Jam(<<q, BSub(p, BShl(q, ScaleBits))>>)))

NumIsInt(x) == BShl(BShr(x.mag, ScaleBits), ScaleBits) = x.mag

\* Math.floor and Math.ceil, as integers
NumFloor(x) ==
  LET q == BToInt(BShr(x.mag, ScaleBits)) IN
  IF x.neg THEN (IF NumIsInt(x) THEN -q ELSE -q - 1) ELSE q

NumCeil(x) ==
  LET q == BToInt(BShr(x.mag, ScaleBits)) IN
  IF x.neg THEN -q ELSE (IF NumIsInt(x) THEN q ELSE q + 1)

\* Number.prototype.toFixed(d): the integer n nearest to x * 10^d (ties up),
\* i.e. the decimal string n / 10^d; for x >= 0
NumToFixed(x, d) ==
  BToInt(BShr(BAdd(BMulS(BMulS(x.mag, 10 ^ d), 2), BShl(<<1>>, ScaleBits)),
              ScaleBits + 1))

(***************************************************************************)
(* Strings: sequences of characters.                                       *)
(***************************************************************************)
RECURSIVE TrimStart(_)
TrimStart(s) == IF s # <<>> /\ Head(s) = " " THEN TrimStart(Tail(s)) ELSE s

RECURSIVE TrimEnd(_)
TrimEnd(s) ==
  IF s # <<>> /\ s[Len(s)] = " " THEN TrimEnd(SubSeq(s, 1, Len(s) - 1)) ELSE s

\* String.prototype.trim
Trim(s) == TrimEnd(TrimStart(s))

\* String.prototype.includes
Includes(s, p) == \E i \in 0..(Len(s) - Len(p)) : SubSeq(s, i + 1, i + Len(p)) = p

\* String.prototype.slice(0, n)
SliceTo(s, n) == SubSeq(s, 1, IF Len(s) < n THEN Len(s) ELSE n)

StrVersioned == <<"v", "e", "r", "s", "i", "o", "n", "e", "d">>
StrVersionedTransaction == <<"V", "e", "r", "s", "i", "o", "n", "e", "d", "T", "r", "a", "n", "s", "a", "c", "t", "i", "o", "n">>
StrTooLarge == <<"t", "o", "o", " ", "l", "a", "r", "g", "e">>
StrInsufficientFunds == <<"i", "n", "s", "u", "f", "f", "i", "c", "i", "e", "n", "t", " ", "f", "u", "n", "d", "s">>
StrUserRejected == <<"U", "s", "e", "r", " ", "r", "e", "j", "e", "c", "t", "e", "d">>
StrReject == <<"r", "e", "j", "e", "c", "t">>
StrOversized == <<"o", "v", "e", "r", "s", "i", "z", "e", "d">>
StrInvalidPublicKey == <<"I", "n", "v", "a", "l", "i", "d", " ", "p", "u", "b", "l", "i", "c", " ", "k", "e", "y">>
StrCustom1 == <<"C", "u", "s", "t", "o", "m", ":", "1">>
StrAlreadySigning == <<"A", "l", "r", "e", "a", "d", "y", " ", "s", "i", "g", "n", "i", "n", "g">>
StrSimulationFailed == <<"s", "i", "m", "u", "l", "a", "t", "i", "o", "n", " ", "f", "a", "i", "l", "e", "d">>
StrPaymaster == <<"p", "a", "y", "m", "a", "s", "t", "e", "r">>
StrTransactionFailed == <<"T", "r", "a", "n", "s", "a", "c", "t", "i", "o", "n", " ", "f", "a", "i", "l", "e", "d">>
StrLegacyFailed == <<"L", "e", "g", "a", "c", "y", " ", "t", "r", "a", "n", "s", "a", "c", "t", "i", "o", "n", " ", "f", "a", "i", "l", "e", "d">>

(***************************************************************************)
(* Program constants.                                                      *)
(***************************************************************************)
\* const MAX_CHUNK = 0.05 (sendInChunks); the literal 0.05 of handleSendTransaction
MAX_CHUNK == NumFromDecimal(5, 2)

LAMPORTS_PER_SOL == 1000000000

\* signature.slice(0, 32)
SignaturePrefix == 32

\* fetchBalance: the debounce window, the delay of the finally block's
\* setTimeout, the delay of the auto-fetch effect's setTimeout (milliseconds)
DebounceMs == 1000
CleanupDelayMs == 500
AutoFetchDelayMs == 100
\* WalletDashboard.handleRefresh: setTimeout(() => setIsRefreshing(false), 2000)
RefreshingMs == 2000

\* The clock advances in steps of TickMs; Date.now() when the page loads.
TickMs == CleanupDelayMs
EpochStart == 10 * DebounceMs

(***************************************************************************)
(* The environment: what the user types, what the wallet SDK and the       *)
(* address validator answer.                                               *)
(***************************************************************************)
\* smartWalletPubkey.toString(), and another well-formed account address
WalletKey == <<"W", "1">>
OtherKey == <<"K", "2">>

\* The strings the external validator (new PublicKey(s)) accepts.
PublicKeyOk(s) == s \in {WalletKey, OtherKey}

\* The wallets the hook can hand to the page.
WalletKeys == {WalletKey, OtherKey}

\* What the user types into the recipient field (empty at first): blanks, a
\* malformed address, a well-formed one.
RecipientInputs == {<<" ">>, <<"K">>, OtherKey}

\* What the user types into the amount field, in thousandths of a SOL (the
\* field's step), besides the emptied field and a text parseFloat maps to NaN.
AmountInputs == {-1, 120}
AmountTexts ==
  {[text |-> "empty"], [text |-> "nan"]}
    \cup {[text |-> "decimal", n |-> n] : n \in AmountInputs}

\* The quick-amount buttons 0.001, 0.01, 0.05.
QuickAmounts == {1, 10, 50}

\* The messages of the errors signAndSendTransaction rejects with; <<>> is an
\* error without a message.
ErrorMessages ==
  { <<>>, <<"T", "x", " ">> \o StrTooLarge, StrInsufficientFunds }

\* The messages sendTransaction's promise may reject with.
\* Messages for the handler's classification: each known substring inside a
\* longer message, messages with two known substrings in either order,
\* messages that also ask for the legacy retry, and unknown ones.
ErrPrefix == <<"E", ":", " ">>
ErrJoin == <<";", " ">>
ClassifierMessages ==
  { <<>>, <<"b", "o", "o", "m">>,
    ErrPrefix \o StrInsufficientFunds,
    ErrPrefix \o StrUserRejected,
    <<"W", "a", "s", " ">> \o StrReject \o <<"e", "d">>,
    ErrPrefix \o StrOversized,
    ErrPrefix \o StrInvalidPublicKey,
    ErrPrefix \o StrCustom1,
    ErrPrefix \o StrAlreadySigning,
    ErrPrefix \o StrSimulationFailed,
    ErrPrefix \o StrPaymaster,
    StrPaymaster \o ErrJoin \o StrInsufficientFunds,
    StrInsufficientFunds \o ErrJoin \o StrPaymaster,
    StrSimulationFailed \o ErrJoin \o StrCustom1,
    StrAlreadySigning \o ErrJoin \o StrReject,
    ErrPrefix \o StrTooLarge,
    StrInsufficientFunds \o ErrJoin \o StrVersioned }

ChunkErrorMessages == { <<"b", "o", "o", "m">> }

\* The confirmation identifier signAndSendTransaction resolves to.
Signatures == { <<"5", "h", "Z">> }

\* The totals sendInChunks is called with, in thousandths of a SOL.
ChunkTotals == { 1, 50, 51, 100, 120, 150, 151, 176, 200, 350 }

\* The number each decimal text or literal with three decimals denotes.
Decimal3 ==
  [n \in AmountInputs \cup QuickAmounts \cup ChunkTotals |-> NumFromDecimal(n, 3)]

\* The balances conn.getBalance may answer, in lamports.
LamportValues == { 49999, 1234567890 }

(***************************************************************************)
(* Bounds of the model.                                                    *)
(***************************************************************************)
\* Invocations of handleActions and of handleSendTransaction in one run.
MaxInvocations == 2
\* Edits of the form (recipient field, amount field, quick-amount buttons) in one run.
MaxEdits == 2
\* Calls of conn.getBalance in one run.
MaxReads == 3
\* Steps of the clock in one run.
MaxTicks == 2
\* Clicks on the balance card's refresh button in one run.
MaxRefreshClicks == 1
\* Account changes the subscription reports in one run.
MaxAccountChanges == 1
\* clicks on the dashboard's refresh button
MaxDashboardClicks == 3
\* the time the life of the page is followed for, in ms
RefreshHorizonMs == 2000

(***************************************************************************)
(* The state.                                                              *)
(***************************************************************************)
VARIABLES
  \* TransactionPanel: useState
  recipient, amount, isValidAddress, txError, txSuccess, isSending, progress,
  message,
  \* useWallet(): "disconnected", "connected" (isConnected, no
  \* smartWalletPubkey yet) or "ready"
  wallet,
  \* the invocations of TransactionsButton.handleActions, in click order, and
  \* the calls of signAndSendTransaction they made, in call order
  acts, extCalls,
  \* the invocations of handleSendTransaction / sendInChunks, in call order,
  \* each with the calls of sendTransaction it made
  sends,
  \* the number of edits of the form so far
  edits,
  \* Home (page.tsx): connectionRef.current is set; walletAddressRef.current;
  \* the account wsSubscriptionRef.current listens to (<<>>: null);
  \* the balance state, as the number of 0.0001 SOL its toFixed(4) text shows
  connReady, walletAddressRef, wsSubscription, balance,
  \* fetchInProgressRef, lastFetchTimeRef, hasFetchedRef, lastFetchedAddressRef
  fetchInProgress, lastFetchTime, hasFetched, lastFetchedAddress,
  isRefreshingBalance,
  \* the calls of conn.getBalance, in call order; the pending setTimeout
  \* callbacks; Date.now(); the clicks on the refresh button and the
  \* account changes the subscription reported so far
  reads, timers, now, refreshClicks, accountChanges,
  \* Home is mounted; the accounts of the account-change listeners registered
  \* on the connection, in the order of their registration
  mounted, listeners,
  \* WalletDashboard: its isRefreshing state and the calls of onRefreshBalance
  \* its handleRefresh made, each with its time and whether the dashboard that
  \* made it is still mounted
  dashboard

panelVars == <<recipient, amount, isValidAddress, txError, txSuccess, isSending,
               progress, message>>
transferVars == <<panelVars, wallet, acts, extCalls, sends, edits>>
pageVars == <<connReady, walletAddressRef, wsSubscription, balance,
              fetchInProgress, lastFetchTime, hasFetched, lastFetchedAddress,
              isRefreshingBalance, reads, timers, now, refreshClicks,
              accountChanges,
              mounted, listeners, dashboard>>
vars == <<transferVars, pageVars>>

\* The values of txError / txSuccess / message / progress: false, null and ''
\* are [kind |-> "none"]; a string is the template it was built from and the
\* values put into it.
None == [kind |-> "none"]
Truthy(v) == v.kind # "none"

(***************************************************************************)
(* TransactionPanel: the input handlers.                                   *)
(***************************************************************************)
\* validateSolanaAddress
ValidateSolanaAddress(address) ==
  IF Trim(address) = <<>> THEN FALSE ELSE PublicKeyOk(address)

\* handleRecipientChange
HandleRecipientChange ==
  /\ edits < MaxEdits
  /\ edits' = edits + 1
  /\ \E value \in RecipientInputs :
       /\ recipient' = value
       /\ isValidAddress' = ValidateSolanaAddress(value)
       /\ UNCHANGED <<amount, txError, txSuccess, isSending, progress, message,
                      wallet, acts, extCalls, sends, pageVars>>

\* handleAmountChange: '' sets 0, a text that parses sets the parsed number,
\* any other text changes nothing
AmountAfterChange(text, old) ==
  IF text.text = "empty" THEN Zero
  ELSE IF text.text = "decimal" THEN Decimal3[text.n]
  ELSE old

HandleAmountChange ==
  /\ edits < MaxEdits
  /\ edits' = edits + 1
  /\ \E text \in AmountTexts :
       /\ amount' = AmountAfterChange(text, amount)
       /\ UNCHANGED <<recipient, isValidAddress, txError, txSuccess, isSending,
                      progress, message, wallet, acts, extCalls, sends, pageVars>>

\* the quick-amount buttons: onClick={() => setAmount(0.001)} ...
QuickAmount ==
  /\ edits < MaxEdits
  /\ edits' = edits + 1
  /\ \E q \in QuickAmounts :
       /\ amount' = Decimal3[q]
       /\ UNCHANGED <<recipient, isValidAddress, txError, txSuccess, isSending,
                      progress, message, wallet, acts, extCalls, sends, pageVars>>

(***************************************************************************)
(* The wallet hook.  When smartWalletPubkey appears the panel's effect     *)
(* fills the recipient with the wallet's own address.                      *)
(***************************************************************************)
UseWalletConnect ==
  /\ wallet = "disconnected"
  /\ wallet' = "connected"
  /\ UNCHANGED <<panelVars, acts, extCalls, sends, edits>>

UseWalletReady(key) ==
  /\ wallet = "connected"
  /\ wallet' = "ready"
  /\ recipient' = key
  /\ isValidAddress' = TRUE
  /\ UNCHANGED <<amount, txError, txSuccess, isSending, progress, message,
                 acts, extCalls, sends, edits>>

\* isConnected and smartWalletPubkey arrive in the same render.
UseWalletConnectReady(key) ==
  /\ wallet = "disconnected"
  /\ wallet' = "ready"
  /\ recipient' = key
  /\ isValidAddress' = TRUE
  /\ UNCHANGED <<amount, txError, txSuccess, isSending, progress, message,
                 acts, extCalls, sends, edits>>

UseWalletDisconnect ==
  /\ wallet # "disconnected"
  /\ wallet' = "disconnected"
  /\ UNCHANGED <<panelVars, acts, extCalls, sends, edits>>

\* The wallet hook changes while the page's balance state is left as it is.
WalletConnect == UseWalletConnect /\ UNCHANGED pageVars
WalletReady == UseWalletReady(WalletKey) /\ UNCHANGED pageVars
WalletDisconnect == UseWalletDisconnect /\ UNCHANGED pageVars

(***************************************************************************)
(* TransactionsButton.handleActions, mode = 'transaction' (the panel's     *)
(* button).  The props address and amount are the panel's recipient and    *)
(* amount at the time of the click.                                        *)
(***************************************************************************)
\* The checks without the one on the amount.
ActionValidationNoAmount(address, amt, w) ==
  IF w = "disconnected" THEN "connect"
  ELSE IF Trim(address) = <<>> THEN "noReceiver"
  ELSE IF ~PublicKeyOk(address) THEN "badAddress"
  ELSE IF w # "ready" THEN "notInitialized"
  ELSE "ok"

\* The check handleActions stops at, or "ok": lines 130-186.
ActionValidation(address, amt, w) ==
  IF w = "disconnected" THEN "connect"
  ELSE IF Trim(address) = <<>> THEN "noReceiver"
  ELSE IF amt = Zero \/ NumLE(amt, Zero) THEN "badAmount"
  ELSE IF ~PublicKeyOk(address) THEN "badAddress"
  ELSE IF w # "ready" THEN "notInitialized"
  ELSE "ok"

\* lamports: Math.floor(amount * LAMPORTS_PER_SOL)
Lamports(amt) == NumFloor(NumMul(amt, NumFromInt(LAMPORTS_PER_SOL)))

\* error.message?.toString() || fallback
MessageOr(msg, fallback) == IF msg = <<>> THEN fallback ELSE msg

\* A retry after any failure.
NeedsFallbackAlways(errorMsg) == TRUE

\* The condition of the legacy retry.
NeedsFallback(errorMsg) ==
  \/ Includes(errorMsg, StrVersioned)
  \/ Includes(errorMsg, StrVersionedTransaction)
  \/ Includes(errorMsg, StrTooLarge)

\* The tests in another order: 'paymaster' before 'insufficient funds'.
ClassifyErrorReordered(errorMsg) ==
  IF Includes(errorMsg, StrPaymaster) THEN [kind |-> "paymaster"]
  ELSE IF Includes(errorMsg, StrInsufficientFunds) THEN [kind |-> "insufficientFunds"]
  ELSE IF Includes(errorMsg, StrUserRejected) \/ Includes(errorMsg, StrReject)
       THEN [kind |-> "cancelled"]
  ELSE IF Includes(errorMsg, StrTooLarge) \/ Includes(errorMsg, StrOversized)
       THEN [kind |-> "tooLarge"]
  ELSE IF Includes(errorMsg, StrInvalidPublicKey) THEN [kind |-> "invalidRecipient"]
  ELSE IF Includes(errorMsg, StrCustom1) THEN [kind |-> "custom1"]
  ELSE IF Includes(errorMsg, StrAlreadySigning) THEN [kind |-> "alreadySigning"]
  ELSE IF Includes(errorMsg, StrSimulationFailed) THEN [kind |-> "simulationFailed"]
  ELSE [kind |-> "transferFailed", msg |-> errorMsg]

\* STANDARD ERROR HANDLING: the first test that matches decides the text.
ClassifyError(errorMsg) ==
  IF Includes(errorMsg, StrInsufficientFunds) THEN [kind |-> "insufficientFunds"]
  ELSE IF Includes(errorMsg, StrUserRejected) \/ Includes(errorMsg, StrReject)
       THEN [kind |-> "cancelled"]
  ELSE IF Includes(errorMsg, StrTooLarge) \/ Includes(errorMsg, StrOversized)
       THEN [kind |-> "tooLarge"]
  ELSE IF Includes(errorMsg, StrInvalidPublicKey) THEN [kind |-> "invalidRecipient"]
  ELSE IF Includes(errorMsg, StrCustom1) THEN [kind |-> "custom1"]
  ELSE IF Includes(errorMsg, StrAlreadySigning) THEN [kind |-> "alreadySigning"]
  ELSE IF Includes(errorMsg, StrSimulationFailed) THEN [kind |-> "simulationFailed"]
  ELSE IF Includes(errorMsg, StrPaymaster) THEN [kind |-> "paymaster"]
  ELSE [kind |-> "transferFailed", msg |-> errorMsg]

\* A handler without the catch block: the rejection leaves handleActions.
UncaughtRejection(errorMsg) == [outcome |-> "rejected", error |-> None]

\* catch (error: any) { ... setError(...) }: handleActions returns normally
\* with the classified error set.
CaughtRejection(errorMsg) ==
  [outcome |-> "failed", error |-> ClassifyError(errorMsg)]

\* A call of signAndSendTransaction made by invocation a.
ExtCall(a, amt, versioned) ==
  [act |-> a, lamports |-> Lamports(amt), versioned |-> versioned,
   status |-> "pending"]

\* The button is enabled while isConnected (disabled={!isConnected}).  The
\* handler runs to its first await: the resets, the checks, and the first
\* call of signAndSendTransaction.
HandleActions ==
  /\ mounted
  /\ Len(acts) + Len(sends) < MaxInvocations
  /\ wallet # "disconnected"
  /\ LET v == ActionValidation(recipient, amount, wallet)
         a == Len(acts) + 1
     IN  /\ txSuccess' = None
         /\ txError' = IF v = "ok" THEN None ELSE [kind |-> v]
         /\ acts' = Append(acts, [amount |-> amount,
                                  pc |-> IF v = "ok" THEN "await1" ELSE "done",
                                  outcome |-> IF v = "ok" THEN "none" ELSE v,
                                  firstMsg |-> <<>>])
         /\ extCalls' = IF v = "ok" THEN Append(extCalls, ExtCall(a, amount, TRUE))
                        ELSE extCalls
  /\ UNCHANGED <<recipient, amount, isValidAddress, isSending, progress, message,
                 wallet, sends,
                 pageVars, edits>>

\* signAndSendTransaction resolves with a signature; PageStep is what the
\* page does in the render that follows.
ActionResolveWith(PageStep) ==
  \E c \in 1..Len(extCalls), sig \in Signatures :
    /\ extCalls[c].status = "pending"
    /\ extCalls' = [extCalls EXCEPT ![c].status = "ok"]
    /\ txSuccess' = [kind |-> IF extCalls[c].versioned THEN "sent" ELSE "sentLegacy",
                     sig |-> SliceTo(sig, SignaturePrefix)]
    /\ acts' = [acts EXCEPT ![extCalls[c].act].pc = "done",
                            ![extCalls[c].act].outcome =
                               IF extCalls[c].versioned THEN "sent" ELSE "sentLegacy"]
    /\ UNCHANGED <<recipient, amount, isValidAddress, txError, isSending,
                   progress, message, wallet, sends, edits>>
    /\ PageStep

\* The page is left as it is.
ActionResolve == ActionResolveWith(UNCHANGED pageVars)

\* The first call rejects with one of msgs: the legacy retry, or the
\* classified error.
ActionRejectFirstOf(msgs) ==
  \E c \in 1..Len(extCalls), msg \in msgs :
    LET a        == extCalls[c].act
        errorMsg == MessageOr(msg, StrTransactionFailed)
    IN  /\ extCalls[c].status = "pending"
        /\ extCalls[c].versioned
        /\ IF NeedsFallback(errorMsg)
           THEN /\ extCalls' = Append([extCalls EXCEPT ![c].status = "failed"],
                                      ExtCall(a, acts[a].amount, FALSE))
                /\ acts' = [acts EXCEPT ![a].pc = "await2", ![a].firstMsg = errorMsg]
                /\ UNCHANGED txError
           ELSE /\ extCalls' = [extCalls EXCEPT ![c].status = "failed"]
                /\ acts' = [acts EXCEPT ![a].pc = "done",
                                        ![a].outcome = CaughtRejection(errorMsg).outcome,
                                        ![a].firstMsg = errorMsg]
                /\ txError' = IF Truthy(CaughtRejection(errorMsg).error)
                              THEN CaughtRejection(errorMsg).error ELSE txError
        /\ UNCHANGED <<recipient, amount, isValidAddress, txSuccess, isSending,
                       progress, message, wallet, sends,
                 pageVars, edits>>

ActionRejectFirst == ActionRejectFirstOf(ErrorMessages)

\* The first call rejects with a message of the kinds the handler tells apart.
ActionRejectClassified == ActionRejectFirstOf(ClassifierMessages)

\* The legacy retry rejects too.
ActionRejectLegacy ==
  \E c \in 1..Len(extCalls), msg \in ErrorMessages :
    LET a == extCalls[c].act IN
    /\ extCalls[c].status = "pending"
    /\ ~extCalls[c].versioned
    /\ extCalls' = [extCalls EXCEPT ![c].status = "failed"]
    /\ acts' = [acts EXCEPT ![a].pc = "done", ![a].outcome = "bothFailed"]
    /\ txError' = [kind |-> "bothFailed", versioned |-> acts[a].firstMsg,
                   legacy |-> MessageOr(msg, StrLegacyFailed)]
    /\ UNCHANGED <<recipient, amount, isValidAddress, txSuccess, isSending,
                   progress, message, wallet, sends,
                 pageVars, edits>>

(***************************************************************************)
(* TransactionPanel: handleSendTransaction, sendInChunks, sendTransaction. *)
(*                                                                         *)
(* sendTransaction only stores its arguments in the panel's state          *)
(* (setAmount, setRecipient); it makes no call of signAndSendTransaction.  *)
(* sendInChunks awaits it inside try/catch: the promise is taken to settle *)
(* either way, as the catch branch provides for.                           *)
(***************************************************************************)
\* handleSendTransaction's check: !recipient.trim() || amount <= 0
SendInputInvalid(rcpt, amt) == Trim(rcpt) = <<>> \/ NumLE(amt, Zero)

\* const chunks = Math.ceil(totalAmount / MAX_CHUNK)
ChunkCount(totalAmount) == NumCeil(NumDiv(totalAmount, MAX_CHUNK))

\* const chunkAmount = Math.min(MAX_CHUNK, remaining)
ChunkAmount(remaining) == NumMin(MAX_CHUNK, remaining)

NewSend(caller, totalAmount, rcpt) ==
  [caller |-> caller, totalAmount |-> totalAmount, recipient |-> rcpt,
   pc |-> "start", chunks |-> 0, remaining |-> totalAmount, successCount |-> 0,
   i |-> 0, calls |-> <<>>, notified |-> <<>>, outcome |-> "none",
   error |-> None,
   surfaced |-> [error |-> None, success |-> None]]

LastCall(s) == s.calls[Len(s.calls)]

\* The confirmation identifiers an invocation holds.  sendInChunks awaits
\* sendTransaction as a statement (line 152) and sendTransaction returns
\* nothing (lines 168-173): the locals and the return value hold the count
\* successCount and no identifier.
SignaturesKept(s) == <<>>

\* The calls of sendTransaction that have settled.
SettledCalls(s) == {j \in 1..Len(s.calls) : s.calls[j].status # "pending"}

\* setProgress({ current, total }) of lines 142 and 148, written down with the
\* number of chunk calls started and settled by then.
Notify(s, current) ==
  [s EXCEPT !.notified = Append(s.notified,
                                [current |-> current, total |-> s.chunks,
                                 started |-> Len(s.calls),
                                 settled |-> Cardinality(SettledCalls(s))])]

\* A loop that does not wait: it starts two chunk calls at once.
LoopStepUnawaited(s) ==
  IF s.i < s.chunks
  THEN [Notify(s, s.i + 1) EXCEPT !.pc = "awaitChunk",
                 !.calls = s.calls \o << [amount |-> ChunkAmount(s.remaining),
                                          status |-> "pending"],
                                        [amount |-> ChunkAmount(s.remaining),
                                          status |-> "pending"] >>]
  ELSE [s EXCEPT !.pc = "done", !.outcome = "returned"]

\* The loop from its head to the next await, or past its end:
\*   for (i < chunks) { chunkAmount = ...; await sendTransaction(chunkAmount, ..) }
\*   setProgress(null); return successCount
LoopStep(s) ==
  IF s.i < s.chunks
  THEN [Notify(s, s.i + 1) EXCEPT
                 !.pc = "awaitChunk",
                 !.calls = Append(s.calls, [amount |-> ChunkAmount(s.remaining),
                                            status |-> "pending"])]
  ELSE [s EXCEPT !.pc = "done", !.outcome = "returned"]

\* sendInChunks from its entry to its first await.
EnterSendInChunks(s) ==
  IF NumLE(s.totalAmount, MAX_CHUNK)
  THEN [s EXCEPT !.pc = "awaitSingle",
                 !.calls = <<[amount |-> s.totalAmount, status |-> "pending"]>>]
  ELSE LoopStep(Notify([s EXCEPT !.chunks = ChunkCount(s.totalAmount),
                                 !.remaining = s.totalAmount,
                                 !.successCount = 0, !.i = 0], 0))

\* A try block that forgets to go on to the next chunk: the same chunk is
\* attempted again.
AfterChunkSuccessNoAdvance(s) ==
  LoopStep([s EXCEPT !.calls[Len(s.calls)].status = "ok",
                     !.successCount = s.successCount + 1,
                     !.remaining = NumSub(s.remaining, LastCall(s).amount)])

\* try: the awaited chunk succeeded: successCount++; remaining -= chunkAmount.
AfterChunkSuccess(s) ==
  LoopStep([s EXCEPT !.calls[Len(s.calls)].status = "ok",
                     !.successCount = s.successCount + 1,
                     !.remaining = NumSub(s.remaining, LastCall(s).amount),
                     !.i = s.i + 1])

\* A catch block that swallows the error and goes on with the next chunk.
AfterChunkFailureGoesOn(s, msg) ==
  LoopStep([s EXCEPT !.calls[Len(s.calls)].status = "failed", !.i = s.i + 1])

\* catch: throw new Error(`Failed to send chunk ${i+1}/${chunks}: ${error.message}`)
AfterChunkFailure(s, msg) ==
  [s EXCEPT !.calls[Len(s.calls)].status = "failed",
            !.pc = "done", !.outcome = "threw",
            !.error = [kind |-> "chunkFailed", chunk |-> s.i + 1,
                       of |-> s.chunks, msg |-> msg]]

\* A catch block that shows a fixed text, whatever was thrown.
SurfacedFixedText(s) ==
  IF s.outcome = "returned"
  THEN [error |-> None, success |-> [kind |-> "sentMultiple", amount |-> s.totalAmount]]
  ELSE [error |-> [kind |-> "transactionFailed"], success |-> None]

\* What handleSendTransaction passes to setTxSuccess / setTxError once
\* sendInChunks has returned or thrown: lines 193 and 201.
Surfaced(s) ==
  IF s.outcome = "returned"
  THEN [error |-> None, success |-> [kind |-> "sentMultiple", amount |-> s.totalAmount]]
  ELSE [error |-> IF Truthy(s.error) THEN s.error ELSE [kind |-> "transactionFailed"],
        success |-> None]

\* The record of a finished invocation with what its caller surfaced.
Finish(s) ==
  IF s.pc = "done" /\ s.caller = "handleSendTransaction"
  THEN [s EXCEPT !.surfaced = Surfaced(s)]
  ELSE s

\* The panel's state after the invocation moved from record s to record t:
\* sendInChunks' own setProgress / setMessage, sendTransaction's setAmount /
\* setRecipient, and the caller's setTxSuccess / setTxError / finally.
PanelAfter(s, t) ==
  LET called   == Len(t.calls) > Len(s.calls)
      finished == t.pc = "done" /\ t.caller = "handleSendTransaction"
  IN  /\ amount' = IF called THEN LastCall(t).amount ELSE amount
      /\ recipient' = IF called THEN t.recipient ELSE recipient
      /\ message' = IF called /\ t.pc = "awaitChunk"
                    THEN [kind |-> "sendingChunk",
                          amount |-> NumToFixed(LastCall(t).amount, 3),
                          current |-> t.i + 1, total |-> t.chunks]
                    ELSE message
      /\ progress' = IF finished \/ (t.pc = "done" /\ t.outcome = "returned"
                                       /\ t.chunks > 0)
                     THEN None
                     ELSE IF t.pc = "awaitChunk"
                          THEN [kind |-> "progress", current |-> t.i + 1,
                                total |-> t.chunks]
                          ELSE progress
      /\ isSending' = IF finished THEN FALSE ELSE isSending
      /\ txSuccess' = IF finished /\ Truthy(Surfaced(t).success)
                      THEN Surfaced(t).success ELSE txSuccess
      /\ txError' = IF finished /\ Truthy(Surfaced(t).error)
                    THEN Surfaced(t).error ELSE txError

\* handleSendTransaction, to its first await or to its end.
HandleSendTransaction ==
  /\ mounted
  /\ Len(acts) + Len(sends) < MaxInvocations
  /\ LET s == NewSend("handleSendTransaction", amount, recipient) IN
     IF SendInputInvalid(recipient, amount)
     THEN /\ txError' = [kind |-> "enterValid"]
          /\ sends' = Append(sends, [s EXCEPT !.pc = "done", !.outcome = "validation",
                                              !.surfaced.error = [kind |-> "enterValid"]])
          /\ UNCHANGED <<recipient, amount, txSuccess, isSending, progress, message>>
     ELSE IF NumGT(amount, MAX_CHUNK)
     THEN LET t == EnterSendInChunks(s) IN
          /\ sends' = Append(sends, t)
          /\ isSending' = TRUE
          /\ txError' = None
          /\ txSuccess' = None
          /\ amount' = LastCall(t).amount
          /\ recipient' = t.recipient
          /\ progress' = [kind |-> "progress", current |-> t.i + 1, total |-> t.chunks]
          /\ message' = [kind |-> "sendingChunk",
                         amount |-> NumToFixed(LastCall(t).amount, 3),
                         current |-> t.i + 1, total |-> t.chunks]
     ELSE /\ sends' = Append(sends, [s EXCEPT !.pc = "done", !.outcome = "messageOnly"])
          /\ txError' = None
          /\ txSuccess' = None
          /\ message' = [kind |-> "sending", amount |-> amount]
          /\ isSending' = FALSE
          /\ progress' = None
          /\ UNCHANGED <<recipient, amount>>
  /\ UNCHANGED <<isValidAddress, wallet, acts, extCalls,
                 pageVars, edits>>

\* sendInChunks called on its own (a record at pc = "start"), to its first await.
SendInChunksStart ==
  \E k \in 1..Len(sends) :
    /\ sends[k].pc = "start"
    /\ LET t == EnterSendInChunks(sends[k]) IN
       /\ sends' = [sends EXCEPT ![k] = t]
       /\ PanelAfter(sends[k], t)
    /\ UNCHANGED <<isValidAddress, wallet, acts, extCalls,
                 pageVars, edits>>

\* The awaited sendTransaction of a chunk resolves; PageStep is what the page
\* does in the render that follows.
ChunkResolveWith(PageStep) ==
  \E k \in 1..Len(sends) :
    /\ sends[k].pc = "awaitChunk"
    /\ LET t == Finish(AfterChunkSuccess(sends[k])) IN
       /\ sends' = [sends EXCEPT ![k] = t]
       /\ PanelAfter(sends[k], t)
    /\ UNCHANGED <<isValidAddress, wallet, acts, extCalls, edits>>
    /\ PageStep

\* The page is left as it is.
ChunkResolve == ChunkResolveWith(UNCHANGED pageVars)

\* The awaited sendTransaction of a chunk rejects.
ChunkReject ==
  \E k \in 1..Len(sends), msg \in ChunkErrorMessages :
    /\ sends[k].pc = "awaitChunk"
    /\ LET t == Finish(AfterChunkFailure(sends[k], msg)) IN
       /\ sends' = [sends EXCEPT ![k] = t]
       /\ PanelAfter(sends[k], t)
    /\ UNCHANGED <<isValidAddress, wallet, acts, extCalls,
                 pageVars, edits>>

\* totalAmount <= MAX_CHUNK: return await sendTransaction(totalAmount, recipient)
SingleResolve ==
  \E k \in 1..Len(sends) :
    /\ sends[k].pc = "awaitSingle"
    /\ LET t == Finish([sends[k] EXCEPT !.calls[1].status = "ok", !.pc = "done",
                                        !.outcome = "returned"]) IN
       /\ sends' = [sends EXCEPT ![k] = t]
       /\ PanelAfter(sends[k], t)
    /\ UNCHANGED <<isValidAddress, wallet, acts, extCalls,
                 pageVars, edits>>

SingleReject ==
  \E k \in 1..Len(sends), msg \in ChunkErrorMessages :
    /\ sends[k].pc = "awaitSingle"
    /\ LET t == Finish([sends[k] EXCEPT !.calls[1].status = "failed", !.pc = "done",
                                        !.outcome = "threw",
                                        !.error = [kind |-> "raw", msg |-> msg]]) IN
       /\ sends' = [sends EXCEPT ![k] = t]
       /\ PanelAfter(sends[k], t)
    /\ UNCHANGED <<isValidAddress, wallet, acts, extCalls,
                 pageVars, edits>>

(***************************************************************************)
(* Home (page.tsx): fetchBalance and what calls it.                        *)
(***************************************************************************)
\* (balanceInLamports / 1000000000).toFixed(4)
SolBalance(lamports) ==
  NumToFixed(NumDiv(NumFromInt(lamports), NumFromInt(LAMPORTS_PER_SOL)), 4)

\* The balance text of each answer of conn.getBalance.
BalanceText == [lamports \in LamportValues |-> SolBalance(lamports)]

\* A setTimeout callback is due within the current step of the clock.
Due(t) == t.due < now + TickMs

Timer(kind, delay) == [kind |-> kind, due |-> now + delay]

\* The callback that runs next is one that is due and has waited longest.
Fires(t) == Due(t) /\ \A u \in timers : t.due <= u.due

\* The auto-fetch effect runs again whenever isConnected, smartWalletPubkey or
\* connection changes: its cleanup clears the pending timeout, its body sets a new one.
RearmAutoFetch(ts) ==
  {t \in ts : t.kind # "autoFetch"} \cup {Timer("autoFetch", AutoFetchDelayMs)}

\* Guards that stop a forced call as well while a fetch is in progress.
FetchStartsGuardsForced(forceRefresh) ==
  /\ connReady
  /\ ~fetchInProgress
  /\ ~(~forceRefresh /\ now - lastFetchTime < DebounceMs)

\* Guards without the comparison of Date.now() with lastFetchTimeRef.
FetchStartsNoDebounce(forceRefresh) ==
  /\ connReady
  /\ ~(fetchInProgress /\ ~forceRefresh)

\* fetchBalance goes past its guards (lines 208-229) and calls conn.getBalance.
FetchStarts(forceRefresh) ==
  /\ connReady
  /\ ~(fetchInProgress /\ ~forceRefresh)
  /\ ~(~forceRefresh /\ now - lastFetchTime < DebounceMs)

\* fetchBalance(address, forceRefresh), to its await.  A read is written down
\* with the time of its call.
FetchBalance(address, forceRefresh) ==
  IF FetchStarts(forceRefresh)
  THEN /\ reads' = Append(reads, [address |-> address, forced |-> forceRefresh,
                                  status |-> "pending", at |-> now])
       /\ fetchInProgress' = TRUE
       /\ isRefreshingBalance' = TRUE
  ELSE UNCHANGED <<reads, fetchInProgress, isRefreshingBalance>>

\* A catch block that resets the balance: setBalance('0.0000').
BalanceResetOnError(old) == 0

\* The balance shown after conn.getBalance threw: the catch block sets nothing.
BalanceAfterError(old) == old

\* A catch block that writes lastFetchTimeRef as the try block does.
LastFetchTimeStamped(old) == now

\* lastFetchTimeRef after conn.getBalance threw: line 242 was not reached.
LastFetchTimeAfterError(old) == old

\* WalletDashboard as it mounts: useState(false), no call made.
NewDashboard == [isRefreshing |-> FALSE, calls |-> <<>>]

\* WalletDashboard is rendered while isConnected && smartWalletPubkey (lines
\* 420-430); when it is not, the dashboard unmounts and its state is dropped.
\* The timeout of a dashboard that has unmounted sets nothing.
DashboardUnmounted(d) ==
  [isRefreshing |-> FALSE,
   calls |-> [i \in 1..Len(d.calls) |-> [d.calls[i] EXCEPT !.live = FALSE]]]

WithoutDashboardTimers(ts) == {t \in ts : t.kind # "dashboard"}

\* A removal that leaves the listener registered.
ListenerKept(ls) == ls

\* conn.removeAccountChangeListener(wsSubscriptionRef.current).  A non-null ref
\* holds the id onAccountChange returned last (line 159): its listener is the
\* one registered last.
RemoveAccountChangeListener(ls) == SubSeq(ls, 1, Len(ls) - 1)

\* if (wsSubscriptionRef.current !== null) { remove it; ref = null }: lines
\* 135-142, 174-181, 192-199 and 387-394.
CleanUpSubscription ==
  /\ listeners' = IF wsSubscription # <<>>
                  THEN RemoveAccountChangeListener(listeners) ELSE listeners
  /\ wsSubscription' = <<>>

\* The subscription effect with a connection and an address: setupWebSocket
\* when the ref is null (line 186), which registers a listener for the
\* address and stores its id (lines 148-159).
ManageSubscription(address) ==
  IF connReady /\ wsSubscription = <<>>
  THEN /\ listeners' = Append(listeners, address)
       /\ wsSubscription' = address
  ELSE UNCHANGED <<wsSubscription, listeners>>

\* The wallet hook changes: the effects of lines 83-89, 167-202 and 260-289
\* run.  isConnected alone: no address yet, so no subscription.
PageWalletConnect ==
  /\ mounted
  /\ UseWalletConnect
  /\ CleanUpSubscription
  /\ timers' = RearmAutoFetch(timers)
  /\ UNCHANGED <<connReady, mounted, dashboard, refreshClicks, accountChanges,
                 walletAddressRef, balance,
                 fetchInProgress, lastFetchTime, hasFetched, lastFetchedAddress,
                 isRefreshingBalance, reads, now>>

\* smartWalletPubkey arrives after isConnected: the subscription effect, which
\* depends on isConnected only, does not run again.
PageWalletReady ==
  \E key \in WalletKeys :
    /\ mounted
    /\ UseWalletReady(key)
    /\ walletAddressRef' = key
    /\ timers' = RearmAutoFetch(timers)
    /\ UNCHANGED <<connReady, mounted, dashboard, refreshClicks, accountChanges,
                 wsSubscription, listeners, balance, fetchInProgress,
                   lastFetchTime, hasFetched, lastFetchedAddress,
                   isRefreshingBalance, reads, now>>

\* isConnected and smartWalletPubkey arrive in one render: setupWebSocket
\* subscribes to the account.
PageWalletConnectReady ==
  \E key \in WalletKeys :
    /\ mounted
    /\ UseWalletConnectReady(key)
    /\ walletAddressRef' = key
    /\ ManageSubscription(key)
    /\ timers' = RearmAutoFetch(timers)
    /\ UNCHANGED <<connReady, mounted, dashboard, refreshClicks, accountChanges,
                 balance, fetchInProgress, lastFetchTime,
                   hasFetched, lastFetchedAddress, isRefreshingBalance, reads,
                   now>>

PageWalletDisconnect ==
  /\ mounted
  /\ UseWalletDisconnect
  /\ walletAddressRef' = <<>>
  /\ CleanUpSubscription
  /\ dashboard' = DashboardUnmounted(dashboard)
  /\ timers' = RearmAutoFetch(WithoutDashboardTimers(timers))
  /\ UNCHANGED <<connReady, mounted, refreshClicks, accountChanges,
                 balance, fetchInProgress, lastFetchTime, hasFetched,
                 lastFetchedAddress, isRefreshingBalance, reads, now>>

\* The onAccountChange callback of lines 149-156, called for a registered
\* listener.
AccountChange ==
  \E lamports \in LamportValues :
    /\ listeners # <<>>
    /\ accountChanges < MaxAccountChanges
    /\ accountChanges' = accountChanges + 1
    /\ balance' = BalanceText[lamports]
    /\ lastFetchTime' = now
    /\ UNCHANGED <<transferVars, connReady, mounted, dashboard, refreshClicks,
                 walletAddressRef, wsSubscription, listeners,
                   fetchInProgress, hasFetched, lastFetchedAddress,
                   isRefreshingBalance, reads, timers, now>>

\* fetchIfNeeded calls fetchBalance(address): the wallet is there and nothing
\* was fetched yet.
AutoFetchCalls == wallet = "ready" /\ connReady /\ ~hasFetched

\* fetchIfNeeded, 100 ms after the effect ran: the first fetch of a connected
\* wallet (not forced), or the reset of a disconnected one.
AutoFetch ==
  \E t \in timers :
    /\ t.kind = "autoFetch"
    /\ Fires(t)
    /\ timers' = timers \ {t}
    /\ IF AutoFetchCalls
       THEN /\ Len(reads) < MaxReads
            /\ FetchBalance(walletAddressRef, FALSE)
            /\ UNCHANGED <<balance, hasFetched, lastFetchedAddress>>
       ELSE IF wallet = "disconnected"
       THEN /\ balance' = 0
            /\ hasFetched' = FALSE
            /\ lastFetchedAddress' = <<>>
            /\ UNCHANGED <<reads, fetchInProgress, isRefreshingBalance>>
       ELSE UNCHANGED <<balance, hasFetched, lastFetchedAddress, reads,
                        fetchInProgress, isRefreshingBalance>>
    /\ UNCHANGED <<transferVars, connReady, mounted, dashboard, refreshClicks, accountChanges,
                 walletAddressRef, wsSubscription, listeners,
                   lastFetchTime, now>>

\* handleRefreshBalance: if (smartWalletPubkey && !isLoading) fetchBalance(.., true);
\* isLoading is never set.
HandleRefreshBalance ==
  /\ mounted
  /\ wallet = "ready"
  /\ Len(reads) < MaxReads
  /\ refreshClicks < MaxRefreshClicks
  /\ refreshClicks' = refreshClicks + 1
  /\ FetchBalance(walletAddressRef, TRUE)
  /\ UNCHANGED <<transferVars, connReady, mounted, dashboard, accountChanges, walletAddressRef,
                 wsSubscription, listeners, balance, lastFetchTime, hasFetched,
                 lastFetchedAddress, timers, now>>

\* A click that is let through whatever isRefreshing is.
RefreshIgnoredNever(d) == FALSE

\* handleRefresh's guard: if (isRefreshing) return.
RefreshIgnored(d) == d.isRefreshing

\* A click on the dashboard's refresh button (WalletDashboard.handleRefresh,
\* lines 189-200): unless isRefreshing, it sets isRefreshing, calls
\* onRefreshBalance, which is the page's handleRefreshBalance, and sets the
\* timeout that clears isRefreshing 2 s later.
HandleRefresh ==
  /\ mounted
  /\ wallet = "ready"
  /\ refreshClicks < MaxDashboardClicks
  /\ refreshClicks' = refreshClicks + 1
  /\ IF RefreshIgnored(dashboard)
     THEN UNCHANGED <<dashboard, timers, reads, fetchInProgress, isRefreshingBalance>>
     ELSE /\ Len(reads) < MaxReads
          /\ dashboard' = [isRefreshing |-> TRUE,
                           calls |-> Append(dashboard.calls,
                                            [at |-> now, live |-> TRUE])]
          /\ FetchBalance(walletAddressRef, TRUE)
          /\ timers' = timers \cup {Timer("dashboard", RefreshingMs)}
  /\ UNCHANGED <<transferVars, connReady, mounted, accountChanges,
                 walletAddressRef, wsSubscription, listeners, balance,
                 lastFetchTime, hasFetched, lastFetchedAddress, now>>

\* The dashboard's timeout: setIsRefreshing(false).
RefreshingTimeout ==
  \E t \in timers :
    /\ t.kind = "dashboard"
    /\ t.due <= now
    /\ Fires(t)
    /\ timers' = timers \ {t}
    /\ dashboard' = [dashboard EXCEPT !.isRefreshing = FALSE]
    /\ UNCHANGED <<transferVars, connReady, mounted, refreshClicks,
                   accountChanges, walletAddressRef, wsSubscription, listeners,
                   balance, fetchInProgress, lastFetchTime, hasFetched,
                   lastFetchedAddress, isRefreshingBalance, reads, now>>

\* conn.getBalance resolves: try block, then finally.
ReadResolve ==
  \E r \in 1..Len(reads), lamports \in LamportValues :
    /\ reads[r].status = "pending"
    /\ reads' = [reads EXCEPT ![r].status = "ok"]
    /\ balance' = IF mounted THEN BalanceText[lamports] ELSE balance
    /\ lastFetchTime' = now
    /\ hasFetched' = TRUE
    /\ lastFetchedAddress' = reads[r].address
    /\ timers' = timers \cup {Timer("cleanup", CleanupDelayMs)}
    /\ UNCHANGED <<transferVars, connReady, mounted, dashboard, refreshClicks, accountChanges,
                 walletAddressRef, wsSubscription, listeners,
                   fetchInProgress, isRefreshingBalance, now>>

\* conn.getBalance throws: catch block, then finally.
ReadReject ==
  \E r \in 1..Len(reads) :
    /\ reads[r].status = "pending"
    /\ reads' = [reads EXCEPT ![r].status = "failed"]
    /\ balance' = BalanceAfterError(balance)
    /\ lastFetchTime' = LastFetchTimeAfterError(lastFetchTime)
    /\ timers' = timers \cup {Timer("cleanup", CleanupDelayMs)}
    /\ UNCHANGED <<transferVars, connReady, mounted, dashboard, refreshClicks, accountChanges,
                 walletAddressRef, wsSubscription, listeners,
                   fetchInProgress, hasFetched, lastFetchedAddress,
                   isRefreshingBalance, now>>

\* The finally block's timeout: setIsRefreshingBalance(false);
\* fetchInProgressRef.current = false
CleanupFire ==
  \E t \in timers :
    /\ t.kind = "cleanup"
    /\ Fires(t)
    /\ timers' = timers \ {t}
    /\ isRefreshingBalance' = FALSE
    /\ fetchInProgress' = FALSE
    /\ UNCHANGED <<transferVars, connReady, mounted, dashboard, refreshClicks, accountChanges,
                 walletAddressRef, wsSubscription, listeners,
                   balance, lastFetchTime, hasFetched, lastFetchedAddress, reads,
                   now>>

\* The delays of handleTransactionComplete's two later refreshes.
RefreshDelays == {2000, 5000}

\* setTimeout(() => fetchBalance(address, true), delay), its id pushed to
\* window.__balanceTimeouts.
RefreshTimer(address, delay) ==
  [kind |-> "refresh", due |-> now + delay, address |-> address]

\* The timeouts handleTransactionComplete sets: lines 333-346.
ScheduledRefreshes(address) ==
  {RefreshTimer(address, delay) : delay \in RefreshDelays}

\* handleTransactionComplete: without a wallet address nothing; else the
\* pending refreshes are cleared, the balance is fetched at once (forced) and
\* again after 2 and 5 seconds.
HandleTransactionComplete ==
  IF walletAddressRef = <<>>
  THEN UNCHANGED pageVars
  ELSE /\ Len(reads) < MaxReads
       /\ FetchBalance(walletAddressRef, TRUE)
       /\ timers' = {t \in timers : t.kind # "refresh"}
                       \cup ScheduledRefreshes(walletAddressRef)
       /\ UNCHANGED <<connReady, mounted, dashboard, refreshClicks, accountChanges,
                      walletAddressRef, wsSubscription, listeners, balance, lastFetchTime,
                      hasFetched, lastFetchedAddress, now>>

\* TransactionPanel's effect on txSuccess (lines 95-111): when the render
\* shows a new truthy txSuccess it calls onTransactionComplete.
TxSuccessEffect ==
  IF mounted /\ Truthy(txSuccess') /\ txSuccess' # txSuccess
  THEN HandleTransactionComplete
  ELSE UNCHANGED pageVars

\* A transfer of the button succeeds and the page is told.
ActionResolveComplete == ActionResolveWith(TxSuccessEffect)

\* A chunk of handleSendTransaction succeeds; after the last one the page is told.
ChunkResolveComplete == ChunkResolveWith(TxSuccessEffect)

\* One of handleTransactionComplete's timeouts fires: fetchBalance(address, true).
RefreshFire ==
  \E t \in timers :
    /\ t.kind = "refresh"
    /\ Fires(t)
    /\ Len(reads) < MaxReads
    /\ timers' = timers \ {t}
    /\ FetchBalance(t.address, TRUE)
    /\ UNCHANGED <<transferVars, connReady, mounted, dashboard, refreshClicks, accountChanges,
                   walletAddressRef, wsSubscription, listeners, balance, lastFetchTime,
                   hasFetched, lastFetchedAddress, now>>

\* Home unmounts: the cleanups of the subscription effect (lines 190-200),
\* of the auto-fetch effect (lines 284-287) and of the mount effect (lines
\* 382-402) run.  The timeouts of fetchBalance's finally block stay.
Unmount ==
  /\ mounted
  /\ mounted' = FALSE
  /\ CleanUpSubscription
  /\ dashboard' = DashboardUnmounted(dashboard)
  /\ timers' = {t \in timers : t.kind = "cleanup"}
  /\ UNCHANGED <<transferVars, connReady, refreshClicks, accountChanges,
                 walletAddressRef, balance, fetchInProgress, lastFetchTime,
                 hasFetched, lastFetchedAddress, isRefreshingBalance, reads, now>>

\* Nothing is due: time passes until the next timeout is.
Sleep ==
  /\ timers # {}
  /\ \A t \in timers : ~Due(t)
  /\ \E t \in timers :
       /\ \A u \in timers : t.due <= u.due
       /\ now' = t.due
  /\ UNCHANGED <<transferVars, connReady, mounted, dashboard, refreshClicks, accountChanges,
                 walletAddressRef, wsSubscription, listeners, balance, fetchInProgress,
                 lastFetchTime, hasFetched, lastFetchedAddress,
                 isRefreshingBalance, reads, timers>>

\* Sleep, up to the time of the first of a transfer's later refreshes.
SleepToRefresh ==
  /\ now < EpochStart + RefreshHorizonMs
  /\ Sleep

\* Time passes once every callback that is due has run.
Tick ==
  /\ now < EpochStart + MaxTicks * TickMs
  /\ \A t \in timers : ~Due(t)
  /\ now' = now + TickMs
  /\ UNCHANGED <<transferVars, connReady, mounted, dashboard, refreshClicks, accountChanges,
                 walletAddressRef, wsSubscription, listeners,
                 balance, fetchInProgress, lastFetchTime, hasFetched,
                 lastFetchedAddress, isRefreshingBalance, reads, timers>>

(***************************************************************************)
(* The specifications.                                                     *)
(***************************************************************************)
InitPanel ==
  /\ recipient = <<>>
  /\ amount = Decimal3[1]
  /\ isValidAddress = TRUE
  /\ txError = None
  /\ txSuccess = None
  /\ isSending = FALSE
  /\ progress = None
  /\ message = None
  /\ wallet = "disconnected"
  /\ acts = <<>>
  /\ extCalls = <<>>
  /\ edits = 0

InitPage ==
  /\ connReady = TRUE
  /\ walletAddressRef = <<>>
  /\ wsSubscription = <<>>
  /\ balance = 0
  /\ fetchInProgress = FALSE
  /\ lastFetchTime = 0
  /\ hasFetched = FALSE
  /\ lastFetchedAddress = <<>>
  /\ isRefreshingBalance = FALSE
  /\ reads = <<>>
  /\ timers = {[kind |-> "autoFetch", due |-> EpochStart + AutoFetchDelayMs]}
  /\ now = EpochStart
  /\ refreshClicks = 0
  /\ accountChanges = 0
  /\ mounted = TRUE
  /\ listeners = <<>>
  /\ dashboard = NewDashboard

Init == InitPanel /\ sends = <<>> /\ InitPage

\* The transfer surface: the panel's inputs, the wallet hook, the button's
\* handleActions and the panel's handleSendTransaction.  None of these steps
\* reads the page's balance state, which they leave as it is.
Next ==
  \/ HandleRecipientChange
  \/ HandleAmountChange
  \/ QuickAmount
  \/ WalletConnect
  \/ WalletReady
  \/ WalletDisconnect
  \/ HandleActions
  \/ ActionResolve
  \/ ActionRejectFirst
  \/ ActionRejectLegacy
  \/ HandleSendTransaction
  \/ ChunkResolve
  \/ ChunkReject

Spec == Init /\ [][Next]_vars

\* sendInChunks on its own, called with any positive total and any recipient.
InitChunks ==
  /\ InitPanel
  /\ InitPage
  /\ \E n \in ChunkTotals, rcpt \in {WalletKey, OtherKey} :
       sends = <<NewSend("direct", Decimal3[n], rcpt)>>

NextChunks ==
  \/ SendInChunksStart
  \/ ChunkResolve
  \/ ChunkReject
  \/ SingleResolve
  \/ SingleReject

SpecChunks == InitChunks /\ [][NextChunks]_vars

\* The same, with what the event loop guarantees: a called async function runs
\* to its first await, and the continuation of an await runs once its promise
\* has settled; every call of sendTransaction is taken to settle.
\* An invocation that has been called and has not run yet: SendInChunksStart
\* is enabled exactly then.
StartPending == \E k \in 1..Len(sends) : sends[k].pc = "start"

\* Weak fairness of the three kinds of step; for SendInChunksStart it is written
\* out with StartPending for ENABLED <<SendInChunksStart>>_vars.
FairChunks ==
  /\ []<>(~StartPending) \/ []<><<SendInChunksStart>>_vars
  /\ WF_vars(ChunkReject \/ ChunkResolve)
  /\ WF_vars(SingleResolve \/ SingleReject)

SpecChunksLive == InitChunks /\ [][NextChunks]_vars /\ FairChunks

\* handleActions of a connected wallet whose own address is in the recipient
\* field, with every kind of rejection.
InitErrors ==
  /\ recipient = WalletKey
  /\ amount = Decimal3[1]
  /\ isValidAddress = TRUE
  /\ txError = None
  /\ txSuccess = None
  /\ isSending = FALSE
  /\ progress = None
  /\ message = None
  /\ wallet = "ready"
  /\ acts = <<>>
  /\ extCalls = <<>>
  /\ edits = 0
  /\ sends = <<>>
  /\ InitPage

NextErrors ==
  \/ HandleActions
  \/ ActionResolve
  \/ ActionRejectClassified
  \/ ActionRejectLegacy

SpecErrors == InitErrors /\ [][NextErrors]_vars

\* A connected wallet with its own address in the recipient field and an
\* amount of three chunks: the transfers and the balance refreshes
\* that follow them.  The page is as it is when the wallet connected with its
\* address, the subscription reported the balance at once and the auto-fetch,
\* 100 ms later, was skipped as too close to it.
InitComplete ==
  /\ recipient = WalletKey
  /\ amount = Decimal3[120]
  /\ isValidAddress = TRUE
  /\ txError = None
  /\ txSuccess = None
  /\ isSending = FALSE
  /\ progress = None
  /\ message = None
  /\ wallet = "ready"
  /\ acts = <<>>
  /\ extCalls = <<>>
  /\ edits = 0
  /\ sends = <<>>
  /\ connReady = TRUE
  /\ walletAddressRef = WalletKey
  /\ wsSubscription = WalletKey
  /\ balance = BalanceText[1234567890]
  /\ fetchInProgress = FALSE
  /\ lastFetchTime = EpochStart
  /\ hasFetched = FALSE
  /\ lastFetchedAddress = <<>>
  /\ isRefreshingBalance = FALSE
  /\ reads = <<>>
  /\ timers = {}
  /\ now = EpochStart
  /\ refreshClicks = 0
  /\ accountChanges = 1
  /\ mounted = TRUE
  /\ listeners = <<WalletKey>>
  /\ dashboard = NewDashboard

NextComplete ==
  \/ HandleActions
  \/ ActionResolveComplete
  \/ ActionRejectFirst
  \/ ActionRejectLegacy
  \/ HandleSendTransaction
  \/ ChunkResolveComplete
  \/ ChunkReject
  \/ RefreshFire
  \/ ReadResolve
  \/ ReadReject
  \/ CleanupFire
  \/ Sleep

SpecComplete == InitComplete /\ [][NextComplete]_vars

\* The page's balance: the wallet hook, the effects, fetchBalance and the clock.
NextPage ==
  \/ PageWalletConnect
  \/ PageWalletReady
  \/ PageWalletConnectReady
  \/ PageWalletDisconnect
  \/ AccountChange
  \/ AutoFetch
  \/ HandleRefreshBalance
  \/ ReadResolve
  \/ ReadReject
  \/ CleanupFire
  \/ Tick

SpecPage == Init /\ [][NextPage]_vars

\* The life of the page around a transfer: the address of another account is
\* in the recipient field, the wallet connects, sends, disconnects and
\* connects again, and the page may unmount.
InitLifecycle ==
  /\ recipient = OtherKey
  /\ amount = Decimal3[1]
  /\ isValidAddress = TRUE
  /\ txError = None
  /\ txSuccess = None
  /\ isSending = FALSE
  /\ progress = None
  /\ message = None
  /\ wallet = "disconnected"
  /\ acts = <<>>
  /\ extCalls = <<>>
  /\ edits = 1
  /\ sends = <<>>
  /\ InitPage

NextLifecycle ==
  \/ PageWalletConnectReady
  \/ PageWalletDisconnect
  \/ Unmount
  \/ AccountChange
  \/ AutoFetch
  \/ HandleActions
  \/ ActionResolveComplete
  \/ RefreshFire
  \/ ReadResolve
  \/ CleanupFire
  \/ SleepToRefresh

SpecLifecycle == InitLifecycle /\ [][NextLifecycle]_vars

\* The dashboard's refresh button while the wallet connects and disconnects.
NextDashboard ==
  \/ PageWalletConnectReady
  \/ PageWalletDisconnect
  \/ AutoFetch
  \/ HandleRefresh
  \/ RefreshingTimeout
  \/ ReadResolve
  \/ CleanupFire
  \/ SleepToRefresh

SpecDashboard == InitLifecycle /\ [][NextDashboard]_vars

(***************************************************************************)
(* Properties of the chunk sequence (SpecChunks).                          *)
(***************************************************************************)
\* The exact sum of the amounts of calls 1..n, and the sum as JavaScript adds.
RECURSIVE ExactSum(_, _)
ExactSum(calls, n) ==
  IF n = 0 THEN <<>> ELSE BAdd(ExactSum(calls, n - 1), calls[n].amount.mag)

RECURSIVE FloatSum(_, _)
FloatSum(calls, n) ==
  IF n = 0 THEN Zero ELSE NumAdd(FloatSum(calls, n - 1), calls[n].amount)

\* ceil(x / y) of the exact quotient of two positive numbers
ExactCeil(x, y) ==
  LET qr == BDivMod(x.mag, y.mag) IN
  BToInt(qr[1]) + (IF qr[2] = <<>> THEN 0 ELSE 1)

Returned(s) == s.pc = "done" /\ s.outcome = "returned"

ChunksInBounds(s) ==
  \A j \in 1..Len(s.calls) :
    NumGT(s.calls[j].amount, Zero) /\ NumLE(s.calls[j].amount, MAX_CHUNK)

ChunkCountExact(s) == Len(s.calls) = ExactCeil(s.totalAmount, MAX_CHUNK)

ChunksSumToTotal(s) ==
  \/ ExactSum(s.calls, Len(s.calls)) = s.totalAmount.mag
  \/ FloatSum(s.calls, Len(s.calls)) = s.totalAmount

\* C1: the chunks of a sequence that ran to its end sum exactly to
\* totalAmount (as real numbers, or at least as JavaScript adds them), every
\* chunk is > 0 and <= MAX_CHUNK, and their number is ceil(totalAmount / MAX_CHUNK).
C1_ChunksSumBoundsCount ==
  \A k \in 1..Len(sends) :
    Returned(sends[k]) =>
      ChunksSumToTotal(sends[k]) /\ ChunksInBounds(sends[k]) /\ ChunkCountExact(sends[k])

\* The part of C1 the code keeps: bounds and count.
ChunkBoundsAndCount ==
  \A k \in 1..Len(sends) :
    /\ ChunksInBounds(sends[k])
    /\ Returned(sends[k]) => ChunkCountExact(sends[k])

\* C3: a failed chunk call is the last call of its sequence, the sequence
\* has ended, and the calls made are exactly k, the chunk named in the error:
\* the k - 1 calls before it succeeded and none follows.
C3_StopsAtFailedChunk ==
  \A k \in 1..Len(sends) :
    LET s == sends[k] IN
    \A j \in 1..Len(s.calls) :
      s.calls[j].status = "failed" =>
        /\ j = Len(s.calls)
        /\ s.pc = "done" /\ s.outcome = "threw"
        /\ \A h \in 1..(j - 1) : s.calls[h].status = "ok"
        /\ s.chunks > 0 => s.error.kind = "chunkFailed" /\ s.error.chunk = j

\* Chunk 2 of 3 failed and two calls were made.
C3_Witness ==
  \E k \in 1..Len(sends) :
    /\ sends[k].chunks = 3
    /\ Len(sends[k].calls) = 2
    /\ sends[k].calls[2].status = "failed"
    /\ sends[k].pc = "done"

\* C6: in a sequence every call but the last has settled, so at most one
\* call is outstanding and call i + 1 exists only once call i succeeded.
C6_StrictlySequential ==
  \A k \in 1..Len(sends) :
    LET s == sends[k] IN
    /\ \A j \in 1..(Len(s.calls) - 1) : s.calls[j].status = "ok"
    /\ Cardinality({j \in 1..Len(s.calls) : s.calls[j].status = "pending"}) <= 1
    /\ s.pc \in {"awaitChunk", "awaitSingle"} <=>
         (s.calls # <<>> /\ LastCall(s).status = "pending")

\* The third chunk's call is outstanding after two settled ones.
C6_Witness ==
  \E k \in 1..Len(sends) :
    /\ Len(sends[k].calls) = 3
    /\ sends[k].calls[3].status = "pending"
    /\ sends[k].calls[1].status = "ok" /\ sends[k].calls[2].status = "ok"

(***************************************************************************)
(* Properties of a transfer submission (Spec).                             *)
(***************************************************************************)
\* The calls of signAndSendTransaction invocation a of handleActions made.
CallsOf(a) == SelectSeq(extCalls, LAMBDA c : c.act = a)

\* x * LAMPORTS_PER_SOL in whole lamports, computed exactly (x >= 0)
WholeLamports(x) == BToInt(BShr(BMul(x.mag, BFromInt(LAMPORTS_PER_SOL)), ScaleBits))

ValidationErrors == {"noReceiver", "badAmount", "badAddress", "enterValid"}

\* A step in which handleActions or handleSendTransaction is invoked.
Submits == Len(acts') > Len(acts) \/ Len(sends') > Len(sends)

\* No call of signAndSendTransaction carries more than MAX_CHUNK.
NoOversizedCall ==
  \A c \in 1..Len(extCalls) : extCalls[c].lamports <= WholeLamports(MAX_CHUNK)

\* A chunk sequence has called signAndSendTransaction for each chunk it sent.
OneCallPerChunk ==
  \A k \in 1..Len(sends) : sends[k].chunks > 0 => Len(extCalls) >= Len(sends[k].calls)

\* C2: a transfer of more than MAX_CHUNK calls signAndSendTransaction once
\* per chunk, and no call of signAndSendTransaction carries more than MAX_CHUNK.
C2_OneBoundedCallPerChunk == OneCallPerChunk /\ NoOversizedCall

\* C4: a sequence of handleSendTransaction that stopped after 1..chunks-1
\* successes surfaces no success, and an error that names the failed chunk
\* successCount + 1 of chunks: unlike the error of a total failure (chunk 1)
\* and unlike the success of a complete sequence.
C4_PartialSuccessSurfaced ==
  \A k \in 1..Len(sends) :
    LET s == sends[k] IN
    (s.caller = "handleSendTransaction" /\ s.pc = "done" /\ s.outcome = "threw"
       /\ s.successCount >= 1) =>
      /\ s.successCount \in 1..(s.chunks - 1)
      /\ s.surfaced.success = None
      /\ s.surfaced.error.kind = "chunkFailed"
      /\ s.surfaced.error.chunk - 1 = s.successCount
      /\ s.surfaced.error.of = s.chunks

\* Chunk 2 of 3 failed after chunk 1 succeeded, and the panel shows it.
C4_Witness ==
  \E k \in 1..Len(sends) :
    /\ sends[k].pc = "done" /\ sends[k].outcome = "threw"
    /\ sends[k].successCount = 1 /\ sends[k].chunks = 3
    /\ txError = sends[k].surfaced.error
    /\ txError.kind = "chunkFailed" /\ txError.chunk = 2
    /\ txSuccess = None

\* C5: at most one call of signAndSendTransaction is outstanding.
C5_OneSubmissionInFlight ==
  Cardinality({c \in 1..Len(extCalls) : extCalls[c].status = "pending"}) <= 1

\* C7 as stated: an invocation of handleActions with amount <= MAX_CHUNK that
\* passed the checks makes exactly one call, carrying the full amount.
C7_ExactlyOneCall ==
  \A a \in 1..Len(acts) :
    (acts[a].outcome \notin ValidationErrors /\ acts[a].outcome # "notInitialized"
       /\ NumLE(acts[a].amount, MAX_CHUNK)) =>
      /\ Len(CallsOf(a)) = 1
      /\ CallsOf(a)[1].lamports = WholeLamports(acts[a].amount)

\* C7 amended: such an invocation makes one call carrying the full amount in
\* whole lamports, and a second one, the legacy retry with the same amount,
\* exactly when the first failed with a message containing 'versioned',
\* 'VersionedTransaction' or 'too large'; it makes no third call.
C7_OneCallOrLegacyRetry ==
  \A a \in 1..Len(acts) :
    (acts[a].outcome \notin ValidationErrors /\ acts[a].outcome # "notInitialized"
       /\ NumLE(acts[a].amount, MAX_CHUNK)) =>
      LET calls == CallsOf(a)
          retry == /\ calls[1].status = "failed"
                   /\ \/ Includes(acts[a].firstMsg, StrVersioned)
                      \/ Includes(acts[a].firstMsg, StrVersionedTransaction)
                      \/ Includes(acts[a].firstMsg, StrTooLarge)
      IN  /\ Len(calls) \in {1, 2}
          /\ calls[1].versioned
          /\ calls[1].lamports = WholeLamports(acts[a].amount)
          /\ Len(calls) = 2 <=> retry
          /\ Len(calls) = 2 => ~calls[2].versioned /\ calls[2].lamports = calls[1].lamports

\* An invocation with 0.05 SOL retried in legacy mode and succeeded.
C7_Witness ==
  \E a \in 1..Len(acts) :
    /\ acts[a].amount = MAX_CHUNK
    /\ acts[a].outcome = "sentLegacy"
    /\ Len(CallsOf(a)) = 2

\* C8: a submission with an empty, blank or malformed recipient sets a
\* validation error and makes no call of signAndSendTransaction.
C8_BadRecipientRejected ==
  [][(Submits /\ ~PublicKeyOk(recipient)) =>
       (txError'.kind \in ValidationErrors /\ extCalls' = extCalls)]_vars

\* The part of C8 the code keeps: handleActions rejects such a recipient.
HandleActionsRejectsBadRecipient ==
  [][(Len(acts') > Len(acts) /\ ~PublicKeyOk(recipient)) =>
       (txError'.kind \in ValidationErrors /\ extCalls' = extCalls)]_vars

\* C9: a submission with amount 0 (the emptied field) or a negative amount
\* sets a validation error and makes no call of signAndSendTransaction or of
\* sendTransaction.
C9_BadAmountRejected ==
  [][(Submits /\ NumLE(amount, Zero)) =>
       /\ txError'.kind \in ValidationErrors
       /\ txSuccess' = txSuccess \/ txSuccess' = None
       /\ extCalls' = extCalls
       /\ \A k \in (Len(sends) + 1)..Len(sends') : sends'[k].calls = <<>>]_vars

\* Both handlers have rejected a non-positive amount.
C9_Witness ==
  /\ \E a \in 1..Len(acts) : acts[a].outcome = "badAmount" /\ NumLE(acts[a].amount, Zero)
  /\ \E k \in 1..Len(sends) : sends[k].outcome = "validation" /\ NumLE(sends[k].totalAmount, Zero)
  /\ txError.kind \in ValidationErrors
  /\ extCalls = <<>>

(***************************************************************************)
(* Properties of the page's balance (SpecPage).                            *)
(***************************************************************************)
\* The step in which read r of conn.getBalance throws.
ReadFails(r) ==
  /\ r <= Len(reads) /\ reads[r].status = "pending"
  /\ reads'[r].status = "failed"

\* C10: when conn.getBalance throws, the balance shown once fetchBalance has
\* handled the error is the balance shown before.
C10_BalanceKeptOnReadError ==
  [][(\E r \in 1..MaxReads : ReadFails(r)) => balance' = balance]_vars

\* A refresh failed after an earlier one had set a balance, which still shows.
C10_Witness ==
  /\ Len(reads) = 2
  /\ reads[1].status = "ok"
  /\ reads[2].status = "failed"
  /\ reads[2].forced
  /\ balance = BalanceText[1234567890]

\* The step in which fetchIfNeeded calls fetchBalance(address), not forced.
NonForcedCall ==
  /\ AutoFetchCalls
  /\ \E t \in timers : t.kind = "autoFetch" /\ Fires(t) /\ timers' = timers \ {t}

\* The reads an earlier call of fetchBalance(address), not forced, made for
\* the wallet's address less than a debounce interval ago.
RecentNonForcedReads ==
  {r \in 1..Len(reads) : /\ ~reads[r].forced
                         /\ reads[r].address = walletAddressRef
                         /\ now - reads[r].at < DebounceMs}

\* fetchIfNeeded has run for the wallet that is connected now: the effect's
\* timeout is set whenever the wallet changes and goes only by firing.
AutoFetchHasRun ==
  /\ wallet = "ready"
  /\ \A t \in timers : t.kind # "autoFetch"

ForcedCall == refreshClicks' # refreshClicks

\* C12: fetchBalance(address, true) always calls conn.getBalance, however
\* recent the last fetch is and whether or not another one is in progress.
C12_ForcedAlwaysReads ==
  [][ForcedCall
       => reads' = Append(reads, [address |-> walletAddressRef, forced |-> TRUE,
                                  status |-> "pending", at |-> now])]_vars

\* A forced read was started in the instant an earlier read succeeded, while
\* a third one was still in progress.
C12_Witness ==
  /\ Len(reads) = 3
  /\ reads[3].forced
  /\ reads[3].at = lastFetchTime
  /\ \E r \in 1..2 : reads[r].status = "pending" /\ reads[r].at <= reads[3].at
  /\ \E r \in 1..2 : reads[r].status = "ok"

\* Every fetch made so far has thrown, one of them a fetch, not forced, of
\* the wallet's address, and the subscription has reported nothing.
OnlyFailedReads ==
  /\ accountChanges = 0
  /\ \A r \in 1..Len(reads) : reads[r].status = "failed"
  /\ \E r \in 1..Len(reads) : ~reads[r].forced /\ reads[r].address = walletAddressRef

\* A call of fetchBalance(address) that goes on to conn.getBalance.
NonForcedReadStarts ==
  reads' = Append(reads, [address |-> walletAddressRef, forced |-> FALSE,
                          status |-> "pending", at |-> now])

OnlyOtherAddressesFetched ==
  /\ accountChanges = 0
  /\ reads # <<>>
  /\ \A r \in 1..Len(reads) : /\ reads[r].address # walletAddressRef
                              /\ reads[r].status # "pending"
  /\ \A t \in timers : t.kind # "cleanup"

\* C19: the fetches of one address do not make fetchBalance(address) skip the
\* read of another address.
C19_DebouncePerAddress ==
  [][(NonForcedCall /\ OnlyOtherAddressesFetched) => NonForcedReadStarts]_vars

\* The reads of calls of fetchBalance that were not forced and have not settled.
NonForcedReadsInFlight ==
  {r \in 1..Len(reads) : ~reads[r].forced /\ reads[r].status = "pending"}

\* C20: a call of fetchBalance(address) entered while the read of an earlier
\* one has not settled makes no read: at most one such read is in flight.
C20_OneNonForcedReadInFlight == Cardinality(NonForcedReadsInFlight) <= 1

(***************************************************************************)
(* Properties of the progress notifications (SpecChunks).                  *)
(***************************************************************************)
\* C18: after each chunk attempt the observer is notified: the k-th
\* setProgress({ current, total }) of a chunked invocation comes after the
\* k-th call of sendTransaction has settled and before the (k+1)-th starts,
\* with current = k and total = chunks.
C18_NotifiedAfterEachAttempt ==
  \A k \in 1..Len(sends) :
    LET s == sends[k] IN
    s.chunks > 0 =>
      /\ Cardinality(SettledCalls(s)) <= Len(s.notified)
      /\ \A n \in 1..Len(s.notified) :
           /\ s.notified[n].current = n
           /\ s.notified[n].total = s.chunks
           /\ s.notified[n].settled = n
           /\ s.notified[n].started = n

\* What the code does: setProgress({ current: 0, total }) before the loop, then
\* setProgress({ current: i + 1, total }) before chunk i + 1 is attempted, when
\* i calls have been started and have succeeded; nothing after a failure.
ProgressBeforeEachAttempt ==
  \A k \in 1..Len(sends) :
    LET s == sends[k] IN
    /\ Len(s.notified) = IF s.chunks > 0 THEN Len(s.calls) + 1 ELSE 0
    /\ \A n \in 1..Len(s.notified) :
         /\ s.notified[n].current = n - 1
         /\ s.notified[n].total = s.chunks
         /\ s.notified[n].started = IF n = 1 THEN 0 ELSE n - 2
         /\ s.notified[n].settled = s.notified[n].started

(***************************************************************************)
(* Properties of the chunk outcome (SpecChunks).                           *)
(***************************************************************************)
\* The chunk calls that have succeeded.
OkCalls(s) == {j \in 1..Len(s.calls) : s.calls[j].status = "ok"}

\* successCount is the number of chunks that succeeded, all of them once a
\* chunked invocation has returned.
SuccessCountCounts ==
  \A k \in 1..Len(sends) :
    LET s == sends[k] IN
    s.chunks > 0 =>
      /\ s.successCount = Cardinality(OkCalls(s))
      /\ Returned(s) => s.successCount = s.chunks

\* C15: each chunk that succeeds adds its confirmation identifier to the
\* signatures and one to successCount: at every point there are successCount
\* signatures, and chunks of them once every chunk has succeeded.
C15_SignaturePerSucceededChunk ==
  \A k \in 1..Len(sends) :
    LET s == sends[k] IN
    s.chunks > 0 =>
      /\ s.successCount = Cardinality(OkCalls(s))
      /\ Len(SignaturesKept(s)) = s.successCount
      /\ Returned(s) => Len(SignaturesKept(s)) = s.chunks

(***************************************************************************)
(* Properties of the error handling (Spec).                                *)
(***************************************************************************)
\* Invocation a of handleActions ends in this step after a rejection of
\* signAndSendTransaction.
ActionEndsRejected(a) ==
  /\ a <= Len(acts) /\ acts[a].pc # "done" /\ acts'[a].pc = "done"
  /\ \E c \in 1..Len(extCalls) :
       extCalls[c].act = a /\ extCalls[c].status = "pending"
         /\ extCalls'[c].status = "failed"

\* sendInChunks, called by invocation k of handleSendTransaction, throws in
\* this step.
SendEndsRejected(k) ==
  /\ k <= Len(sends) /\ sends[k].pc # "done" /\ sends'[k].pc = "done"
  /\ sends'[k].outcome = "threw"

HintList ==
  << [subs |-> {StrInsufficientFunds}, kind |-> "insufficientFunds"],
     [subs |-> {StrUserRejected, StrReject}, kind |-> "cancelled"],
     [subs |-> {StrTooLarge, StrOversized}, kind |-> "tooLarge"],
     [subs |-> {StrInvalidPublicKey}, kind |-> "invalidRecipient"],
     [subs |-> {StrCustom1}, kind |-> "custom1"],
     [subs |-> {StrAlreadySigning}, kind |-> "alreadySigning"],
     [subs |-> {StrSimulationFailed}, kind |-> "simulationFailed"],
     [subs |-> {StrPaymaster}, kind |-> "paymaster"] >>

\* The entries of the list a message matches.
Matches(errorMsg) ==
  {n \in 1..Len(HintList) : \E q \in HintList[n].subs : Includes(errorMsg, q)}

\* The hint of the first entry that matches, or the message itself.
FirstMatchHint(errorMsg) ==
  IF Matches(errorMsg) = {}
  THEN [kind |-> "transferFailed", msg |-> errorMsg]
  ELSE LET n == CHOOSE m \in Matches(errorMsg) : \A o \in Matches(errorMsg) : m <= o
       IN  [kind |-> HintList[n].kind]

\* The first call of invocation a is rejected in this step.
FirstCallRejected(a) ==
  /\ a <= Len(acts) /\ acts[a].pc = "await1"
  /\ acts'[a].pc = "await2" \/ acts'[a].outcome = "failed"

\* C17 (as stated): the error of a transfer is classified by the first entry
\* of the ordered list its message matches; a message that matches none is
\* shown as it is behind 'Transfer failed: '.
C17_FirstMatchDecides ==
  [][\A a \in 1..MaxInvocations :
       FirstCallRejected(a) => txError' = FirstMatchHint(acts'[a].firstMsg)]_vars

\* C17 (amended): the same, for the errors that are not answered with the
\* legacy retry.
C17_FirstMatchDecidesWithoutRetry ==
  [][\A a \in 1..MaxInvocations :
       (FirstCallRejected(a) /\ ~NeedsFallback(acts'[a].firstMsg))
          => txError' = FirstMatchHint(acts'[a].firstMsg)]_vars

\* A message with 'paymaster' before 'insufficient funds' was classified as
\* insufficient funds, and an unknown message is shown as it is.
C17_Witness ==
  /\ Len(acts) = 2
  /\ acts[1].firstMsg = StrPaymaster \o ErrJoin \o StrInsufficientFunds
  /\ acts[1].outcome = "failed"
  /\ acts[2].firstMsg = <<"b", "o", "o", "m">>
  /\ txError = [kind |-> "transferFailed", msg |-> <<"b", "o", "o", "m">>]

(***************************************************************************)
(* Properties of the refreshes after a transfer (SpecComplete).            *)
(***************************************************************************)
\* Invocation k of handleSendTransaction ends in this step with at least one
\* chunk sent.
SendEndsWithSuccess(k) ==
  /\ k <= Len(sends) /\ sends[k].pc # "done" /\ sends'[k].pc = "done"
  /\ sends'[k].successCount > 0

\* Invocation a of handleActions ends in this step with its transfer sent and
\* a new success text (the signatures of two transfers differ).
ActionSucceeds(a) ==
  /\ a <= Len(acts) /\ acts[a].pc # "done" /\ acts'[a].pc = "done"
  /\ acts'[a].outcome \in {"sent", "sentLegacy"}
  /\ txSuccess' # txSuccess

\* A forced fetch of address is started in this step.
ForcedReadStarts(address) ==
  reads' = Append(reads, [address |-> address, forced |-> TRUE,
                          status |-> "pending", at |-> now])

\* The balance is fetched at once, forced, and fetches after 2 and 5 seconds
\* are scheduled.
RefreshesScheduled ==
  /\ ForcedReadStarts(walletAddressRef)
  /\ \A delay \in RefreshDelays :
       [kind |-> "refresh", due |-> now + delay, address |-> walletAddressRef]
         \in timers'

\* Every scheduled refresh that fires in this step starts a forced fetch.
ScheduledRefreshReads ==
  \A t \in timers :
    (t.kind = "refresh" /\ timers' = timers \ {t}) => ForcedReadStarts(t.address)

RefreshAfterShownSuccess ==
  [][/\ (Truthy(txSuccess') /\ txSuccess' # txSuccess) => RefreshesScheduled
     /\ ScheduledRefreshReads]_vars

\* All three refreshes of one transfer have read the balance, the last one
\* five seconds after the first.
RefreshesAllRead ==
  /\ Len(reads) = 3
  /\ \A r \in 1..3 : reads[r].forced
  /\ reads[2].at = reads[1].at + 2000
  /\ reads[3].at = reads[1].at + 5000

(***************************************************************************)
(* Termination of a chunk sequence (SpecChunksLive).                       *)
(***************************************************************************)
\* The number of chunks of an invocation: 1 below MAX_CHUNK.
TotalChunks(s) == IF NumLE(s.totalAmount, MAX_CHUNK) THEN 1 ELSE ChunkCount(s.totalAmount)

\* The invocation has ended with every chunk attempted or at its first failure.
EndedCompleteOrAtFailure(s) ==
  /\ s.pc = "done"
  /\ \/ s.outcome = "returned" /\ Len(s.calls) = TotalChunks(s)
        /\ \A j \in 1..Len(s.calls) : s.calls[j].status = "ok"
     \/ s.outcome = "threw" /\ s.calls # <<>>
        /\ LastCall(s).status = "failed"
        /\ \A j \in 1..(Len(s.calls) - 1) : s.calls[j].status = "ok"

\* C21: when every call of sendTransaction settles, sendInChunks ends, after
\* at most as many calls as there are chunks, with all chunks attempted or at
\* the first chunk that failed.
C21_SequenceTerminates ==
  /\ [](\A k \in 1..Len(sends) : Len(sends[k].calls) <= TotalChunks(sends[k]))
  /\ <>[](\A k \in 1..Len(sends) : EndedCompleteOrAtFailure(sends[k]))

\* A sequence of seven chunks has ended after its seventh call.
C21_Witness ==
  \E k \in 1..Len(sends) :
    /\ sends[k].pc = "done"
    /\ sends[k].chunks = 7
    /\ Len(sends[k].calls) = 7
    /\ sends[k].outcome = "returned"

(***************************************************************************)
(* The calls of one click on the transfer button (SpecErrors).             *)
(***************************************************************************)
\* C22: an invocation of handleActions calls signAndSendTransaction at most
\* twice; a second call is made only after the first one failed with a message
\* containing 'versioned', 'VersionedTransaction' or 'too large', and it is
\* the one call made with versionedTransaction = false.
C22_AtMostOneLegacyRetry ==
  \A a \in 1..Len(acts) :
    LET calls == CallsOf(a) IN
    /\ Len(calls) <= 2
    /\ Cardinality({c \in 1..Len(calls) : ~calls[c].versioned}) <= 1
    /\ Len(calls) >= 1 => calls[1].versioned
    /\ Len(calls) = 2 =>
         /\ calls[1].status = "failed"
         /\ ~calls[2].versioned
         /\ \/ Includes(acts[a].firstMsg, StrVersioned)
            \/ Includes(acts[a].firstMsg, StrVersionedTransaction)
            \/ Includes(acts[a].firstMsg, StrTooLarge)

\* A click whose first call failed as too large and whose legacy retry failed
\* as well: two calls, and the handler has returned.
C22_Witness ==
  \E a \in 1..Len(acts) :
    /\ acts[a].outcome = "bothFailed"
    /\ Includes(acts[a].firstMsg, StrTooLarge)
    /\ Len(CallsOf(a)) = 2
    /\ CallsOf(a)[2].status = "failed"

(***************************************************************************)
(* The page across disconnects and unmount (SpecLifecycle).                *)
(***************************************************************************)
\* One of handleTransactionComplete's timeouts fires in this step and its
\* callback calls conn.getBalance.
ScheduledRefreshFires ==
  \E t \in timers :
    /\ t.kind = "refresh"
    /\ timers' = timers \ {t}
    /\ Len(reads') > Len(reads)

\* No scheduled refresh fires and reads once Home has unmounted.
RefreshesCancelledByUnmount == [][~mounted => ~ScheduledRefreshFires]_vars

\* C23: no refresh scheduled by handleTransactionComplete fires and reads the
\* balance after the wallet has disconnected or after Home has unmounted.
C23_RefreshesCancelled ==
  [][(wallet = "disconnected" \/ ~mounted) => ~ScheduledRefreshFires]_vars

(***************************************************************************)
(* The dashboard's refresh button (SpecDashboard).                         *)
(***************************************************************************)
\* C24 as stated: any two calls of onRefreshBalance made by handleRefresh are
\* at least 2 s apart.
C24_OneCallPerWindow ==
  \A i, j \in 1..Len(dashboard.calls) :
    i < j => dashboard.calls[j].at - dashboard.calls[i].at >= RefreshingMs

\* The calls made by the dashboard that is mounted now.
LiveCalls == {i \in 1..Len(dashboard.calls) : dashboard.calls[i].live}

\* C24 amended: while a dashboard stays mounted, isRefreshing is set from an
\* accepted click until its timeout 2 s later, clicks in between call nothing,
\* and any two calls of onRefreshBalance it makes are at least 2 s apart.
C24_OneCallPerWindowWhileMounted ==
  /\ \A i, j \in LiveCalls :
       i < j => dashboard.calls[j].at - dashboard.calls[i].at >= RefreshingMs
  /\ dashboard.isRefreshing <=> \E t \in timers : t.kind = "dashboard"
  /\ \A t \in timers :
       t.kind = "dashboard" =>
         /\ Len(dashboard.calls) \in LiveCalls
         /\ dashboard.calls[Len(dashboard.calls)].at = t.due - RefreshingMs

\* The mounted dashboard has called onRefreshBalance twice, and one click in
\* between was ignored.
C24_Witness ==
  /\ Cardinality(LiveCalls) = 2
  /\ refreshClicks = 3

(***************************************************************************)
(* What a shown success rests on (Spec).                                   *)
(***************************************************************************)
\* A call of signAndSendTransaction returns its signature in this step.
CallConfirmed ==
  \E c \in 1..Len(extCalls) :
    extCalls[c].status = "pending" /\ extCalls'[c].status = "ok"

\* The success shown by the button rests on a call that returned a signature.
ButtonSuccessNeedsConfirmedCall ==
  [][(Truthy(txSuccess') /\ txSuccess' # txSuccess
        /\ txSuccess'.kind \in {"sent", "sentLegacy"}) => CallConfirmed]_vars

\* C25: txSuccess is set only in a step in which a call of
\* signAndSendTransaction made by the submission returns its signature.
C25_SuccessNeedsConfirmedCall ==
  [][(Truthy(txSuccess') /\ txSuccess' # txSuccess) => CallConfirmed]_vars

(***************************************************************************)
(* Overlapping forced refreshes (SpecComplete).                            *)
(***************************************************************************)
\* Read r resolves in this step: its continuation calls setBalance.
ReadWrites(r) == reads[r].status = "pending" /\ reads'[r].status = "ok"

\* C26: the result of a forced read is not written over that of a forced read
\* that was started later: a read does not resolve once a later-started one
\* has.
C26_LaterReadWins ==
  [][\A r \in 1..Len(reads) :
       (reads[r].forced /\ ReadWrites(r)) =>
         \A q \in (r + 1)..Len(reads) :
           reads[q].forced => reads[q].status # "ok"]_vars

(***************************************************************************)
(* The balance of a disconnected wallet (SpecLifecycle).                   *)
(***************************************************************************)
\* The wallet is disconnected and the reset of lines 270-275 has run: the
\* timeout the auto-fetch effect set at the disconnect is no longer pending.
ResetHasRun ==
  /\ wallet = "disconnected"
  /\ \A t \in timers : t.kind # "autoFetch"

\* The subscription's callback does not write the balance of a disconnected
\* wallet: no listener is registered then.
NoListenerWhileDisconnected == wallet = "disconnected" => listeners = <<>>

\* C27: once the reset has run and until a wallet connects again, the balance
\* is '0.0000'.
C27_ZeroWhileDisconnected ==
  [][(ResetHasRun /\ wallet' = "disconnected") => balance' = 0]_vars

(***************************************************************************)
(* The account-change listeners (SpecLifecycle).                           *)
(***************************************************************************)
\* C28: the listeners registered on the connection are the one whose id
\* wsSubscriptionRef holds, and none when it is null.
C28_OneListenerAsTheRefSays ==
  listeners = IF wsSubscription = <<>> THEN <<>> ELSE <<wsSubscription>>

\* A wallet was connected and read, it disconnected, and another wallet is
\* connected now, with its listener the only one.
C28_Witness ==
  /\ wallet = "ready"
  /\ wsSubscription = OtherKey
  /\ listeners = <<OtherKey>>
  /\ \E r \in 1..Len(reads) : reads[r].address = WalletKey

\* Home has unmounted while a wallet was connected: no listener is left.
NoListenerAfterUnmount == ~mounted => listeners = <<>>

(***************************************************************************)
(* The two result texts of the panel (Spec).                               *)
(***************************************************************************)
\* C29: txError and txSuccess are never both set.
C29_ErrorOrSuccess == ~(Truthy(txError) /\ Truthy(txSuccess))

\* With one submission at a time the two texts are never both set.
ErrorOrSuccessWithoutOverlap ==
  Len(acts) + Len(sends) <= 1 => ~(Truthy(txError) /\ Truthy(txSuccess))

(***************************************************************************)
(* fetchInProgressRef and the reads in flight (SpecComplete).              *)
(***************************************************************************)
\* C30: fetchInProgressRef is true while a call of conn.getBalance has not
\* settled.
C30_FlagCoversReadsInFlight ==
  (\E r \in 1..Len(reads) : reads[r].status = "pending") => fetchInProgress

=============================================================================
